---- MODULE Spec2Model ----
(***************************************************************************)
(* A state-machine model of the experiment runner of Normal-NeuS           *)
(* (src/exp_runner_psnerf.py): Runner construction with checkpoint resume, *)
(* the training loop with its cadenced side effects and early stopping,    *)
(* the learning-rate schedule, checkpoint naming, configuration            *)
(* substitution and the command-line dispatch.                             *)
(*                                                                         *)
(* Strings are sequences of one-character strings, so that formatting,     *)
(* slicing, splitting, replacing and lexicographic sorting are computed.   *)
(* Floating-point values are fixed-point integers with Scale units per 1.0.*)
(***************************************************************************)
EXTENDS Integers, Sequences, FiniteSets, TLC

VARIABLES
    conf,              \* the parsed training configuration (self.conf, read once)
    conf_file,         \* the text of the configuration file at conf_path
    ckpt_dir,          \* <base_exp_dir>/checkpoints: file name -> checkpoint
    args,              \* the parsed command line
    calls,             \* the Runner operations __main__ has invoked, in order
    pc,                \* position of the process
    conf_text,         \* Runner.__init__: conf_text after the substitution
    data_dir,          \* self.conf['dataset.data_dir']
    iter_step,         \* self.iter_step
    nets,              \* parameters of the four networks
    optimizer,         \* Adam: param_groups (lr per group) and its step count
    image_perm,        \* train(): image_perm
    loop_i,            \* train(): iterations of range(res_step) started
    res_step,          \* train(): res_step
    best_val_metric,   \* self.best_val_metric
    best_val_iter,     \* self.best_val_iter
    patience_counter,  \* train(): local patience_counter
    early_stop,        \* self.early_stop
    losses_val,        \* self.losses_val
    psnrs_val,         \* self.psnrs_val
    writer,            \* self.writer (the scalar-logging sink)
    loaded,            \* name of the checkpoint load_checkpoint restored
    events,            \* outputs and calls of this process, in order
    val_iters,         \* history: iter_step at each validation check of this train()
    drawn,             \* history: image indices drawn from image_perm since it was generated
    prev_perm,         \* history: the permutation image_perm replaced
    prev_drawn,        \* history: the image indices that were drawn from prev_perm
    start_iter,        \* history: iter_step when train() was entered
    steps_taken,       \* history: optimizer steps of this train()
    ret,               \* the value the last call of a Runner or Dataset method returned
    rays,              \* the rays handed to near_far_from_sphere or to the renderer
    all_psnr,          \* evaluate(): all_psnr
    all_normal_mae,    \* evaluate(): all_normal_mae
    images,            \* interpolate_view(): images
    video,             \* interpolate_view(): the frames written to the video file
    data_files,        \* the dataset on disk: image subdirectories, calibrated cameras
    saved              \* history: runner state at each save_checkpoint, by file name;
                       \* for a save of train(), also the best iteration, the
                       \* patience counter and the stop flag at the end of that
                       \* iteration

runnerVars == <<conf_text, data_dir, iter_step, nets, optimizer, loaded>>
loopVars == <<image_perm, loop_i, res_step, best_val_metric, best_val_iter,
              patience_counter, early_stop, losses_val, psnrs_val, writer>>
histVars == <<val_iters, drawn, prev_perm, prev_drawn, start_iter, steps_taken>>
cliVars == <<args, calls>>
opVars == <<ret, rays, all_psnr, all_normal_mae, images, video, data_files>>
vars == <<conf, conf_file, ckpt_dir, cliVars, pc, runnerVars, loopVars, histVars,
          opVars, events, saved>>

----------------------------------------------------------------------------
(* Bounds of the model *)

MaxEndIter == 6
MaxLoss == 2

----------------------------------------------------------------------------
(* Fixed-point arithmetic *)

Scale == 10000
PiFx == 31416
MulLimit == 6 * Scale

\* a * b / c for 0 <= a, scaled down first where the product would overflow
MulDiv(a, b, c) ==
    IF a <= MulLimit THEN (a * b) \div c
    ELSE LET f == (a \div MulLimit) + 1 IN ((a \div f) * b) \div (c \div f)

RECURSIVE CosTerms(_, _, _)
\* the Taylor series of cos at x2 = x^2: term, then the terms after term number k
CosTerms(term, x2, k) ==
    IF k > 7 \/ term = 0 THEN 0
    ELSE LET next == (term * x2) \div (Scale * (2 * k - 1) * (2 * k))
         IN  next - CosTerms(next, x2, k + 1)

\* cos(x) for 0 <= x <= pi/2
CosFx(x) == Scale - CosTerms(Scale, (x * x) \div Scale, 1)

\* np.cos(np.pi * progress) with progress = num / den in [0, 1]
CosPi(num, den) ==
    IF 2 * num <= den THEN CosFx(MulDiv(num, PiFx, den))
    ELSE -CosFx(MulDiv(den - num, PiFx, den))

----------------------------------------------------------------------------
(* Strings *)

Digit == <<"0", "1", "2", "3", "4", "5", "6", "7", "8", "9">>

\* code point of the characters that occur in the model
Ord(c) ==
    CASE c = "-" -> 45 [] c = "." -> 46 [] c = "/" -> 47
      [] c = "0" -> 48 [] c = "1" -> 49 [] c = "2" -> 50 [] c = "3" -> 51
      [] c = "4" -> 52 [] c = "5" -> 53 [] c = "6" -> 54 [] c = "7" -> 55
      [] c = "8" -> 56 [] c = "9" -> 57 [] c = "=" -> 61
      [] c = "A" -> 65 [] c = "C" -> 67 [] c = "E" -> 69 [] c = "M" -> 77
      [] c = "N" -> 78 [] c = "S" -> 83 [] c = "_" -> 95
      [] c = "a" -> 97 [] c = "b" -> 98 [] c = "c" -> 99 [] c = "d" -> 100
      [] c = "e" -> 101 [] c = "h" -> 104 [] c = "i" -> 105 [] c = "k" -> 107
      [] c = "l" -> 108 [] c = "m" -> 109 [] c = "n" -> 110 [] c = "o" -> 111
      [] c = "p" -> 112 [] c = "r" -> 114 [] c = "s" -> 115 [] c = "t" -> 116
      [] c = "u" -> 117 [] c = "v" -> 118 [] c = "x" -> 120

RECURSIVE StrLess(_, _)
\* Python's a < b on str: lexicographic by code point, a proper prefix is smaller
StrLess(a, b) ==
    IF b = <<>> THEN FALSE
    ELSE IF a = <<>> THEN TRUE
    ELSE IF Head(a) = Head(b) THEN StrLess(Tail(a), Tail(b))
    ELSE Ord(Head(a)) < Ord(Head(b))

RECURSIVE DecimalDigits(_)
\* the decimal digits of n >= 0
DecimalDigits(n) ==
    IF n < 10 THEN <<Digit[n + 1]>>
    ELSE Append(DecimalDigits(n \div 10), Digit[(n % 10) + 1])

RECURSIVE PadLeft(_, _, _)
\* format spec '{:c>w}': fill on the left up to width w, never truncate
PadLeft(s, c, w) == IF Len(s) >= w THEN s ELSE PadLeft(<<c>> \o s, c, w)

IsDigit(c) == \E d \in 1..10 : Digit[d] = c

DigitValue(c) == (CHOOSE d \in 1..10 : Digit[d] = c) - 1

RECURSIVE DigitsValue(_)
DigitsValue(s) ==
    IF s = <<>> THEN 0
    ELSE 10 * DigitsValue(SubSeq(s, 1, Len(s) - 1)) + DigitValue(s[Len(s)])

\* whether Python's int(s) accepts s (over the model's alphabet: an optional
\* sign, then digits)
IntOk(s) ==
    LET body == IF s # <<>> /\ Head(s) = "-" THEN Tail(s) ELSE s
    IN  body # <<>> /\ \A i \in 1..Len(body) : IsDigit(body[i])

\* Python's int(s) where IntOk(s)
IntOf(s) ==
    IF Head(s) = "-" THEN 0 - DigitsValue(Tail(s)) ELSE DigitsValue(s)

----------------------------------------------------------------------------
(* The command line *)

ModeTrain == <<"t", "r", "a", "i", "n">>
ModeEvaluate == <<"e", "v", "a", "l", "u", "a", "t", "e">>
ModeValidateMesh ==
    <<"v", "a", "l", "i", "d", "a", "t", "e", "_", "m", "e", "s", "h">>
Interpolate == <<"i", "n", "t", "e", "r", "p", "o", "l", "a", "t", "e">>

CommandLine(mode, case, is_continue, checkpoint, mcube_threshold) ==
    [mode |-> mode, case |-> case, is_continue |-> is_continue,
     checkpoint |-> checkpoint, mcube_threshold |-> mcube_threshold]

\* no command line parsed yet: the defaults of the parser
DefaultArgs == CommandLine(ModeTrain, <<>>, FALSE, 0, 0)

----------------------------------------------------------------------------
(* The Runner: construction values *)

\* self.best_val_metric = None
NoneVal == -1

\* the local patience_counter before its first assignment
Unbound == -1

\* latest_model_name = None
NoName == <<>>

\* torch.optim.Adam(params_to_train, lr=...) holds one parameter group
NumParamGroups == 1

\* freshly constructed networks (one value per network stands for its parameters)
FreshNets ==
    [nerf_outside |-> 0, sdf_network |-> 1, deviation_network |-> 2,
     color_network |-> 3]

\* the parameters after k optimizer steps
NetsAfter(k) ==
    [nerf_outside |-> 4 * k, sdf_network |-> 4 * k + 1,
     deviation_network |-> 4 * k + 2, color_network |-> 4 * k + 3]

FreshOptimizer(c) ==
    [param_groups |-> [g \in 1..NumParamGroups |-> [lr |-> c.learning_rate]],
     step |-> 0]

----------------------------------------------------------------------------
(* update_learning_rate *)

\* whether update_learning_rate evaluates without ZeroDivisionError
LearningFactorDefined(t, c) == t < c.warm_up_end \/ c.end_iter # c.warm_up_end

CosineFactor(t, c) ==
    ((CosPi(t - c.warm_up_end, c.end_iter - c.warm_up_end) + Scale)
        * (Scale - c.learning_rate_alpha)) \div (2 * Scale)
    + c.learning_rate_alpha

WarmUpFactor(t, c) == MulDiv(t, Scale, c.warm_up_end)

LearningFactor(t, c) ==
    IF t < c.warm_up_end THEN WarmUpFactor(t, c) ELSE CosineFactor(t, c)

\* the optimizer after update_learning_rate() at iteration t
UpdateLearningRate(opt, t, c) ==
    [opt EXCEPT !.param_groups =
        [g \in DOMAIN opt.param_groups |->
            [opt.param_groups[g] EXCEPT
                !.lr = (c.learning_rate * LearningFactor(t, c)) \div Scale]]]

----------------------------------------------------------------------------
(* Checkpoint I/O *)

PadWidth == 6
CkptPrefix == <<"c", "k", "p", "t", "_">>
CkptSuffix == <<".", "p", "t", "h">>

\* 'ckpt_{:0>6d}.pth'.format(self.iter_step)
CheckpointName(k) == CkptPrefix \o PadLeft(DecimalDigits(k), "0", PadWidth) \o CkptSuffix

\* the dictionary save_checkpoint serializes
CheckpointOf(n, opt, k) ==
    [nerf |-> n.nerf_outside, sdf_network_fine |-> n.sdf_network,
     variance_network_fine |-> n.deviation_network,
     color_network_fine |-> n.color_network, optimizer |-> opt, iter_step |-> k]

\* a directory after writing (or overwriting) file name
WriteFile(dir, name, content) ==
    [f \in (DOMAIN dir) \cup {name} |-> IF f = name THEN content ELSE dir[f]]

\* the checkpoints directory after save_checkpoint()
SaveCheckpoint(dir, n, opt, k) ==
    WriteFile(dir, CheckpointName(k), CheckpointOf(n, opt, k))

\* a variant that restores the color network from the SDF network's entry
LoadedNetsCrossed(ck) ==
    [nerf_outside |-> ck.nerf, sdf_network |-> ck.sdf_network_fine,
     deviation_network |-> ck.variance_network_fine,
     color_network |-> ck.sdf_network_fine]

\* the networks load_checkpoint restores from a checkpoint
LoadedNets(ck) ==
    [nerf_outside |-> ck.nerf, sdf_network |-> ck.sdf_network_fine,
     deviation_network |-> ck.variance_network_fine,
     color_network |-> ck.color_network_fine]

LoadedOptimizer(ck) == ck.optimizer

LoadedIterStep(ck) == ck.iter_step

\* model_name[-3:]
Last3(name) == SubSeq(name, Len(name) - 2, Len(name))

\* int(model_name[5:-4])
NameIter(name) == IntOf(SubSeq(name, 6, Len(name) - 4))

\* a variant that keeps the checkpoints beyond end_iter
ModelListUnfiltered(dir, c) ==
    {name \in DOMAIN dir : Last3(name) = <<"p", "t", "h">>}

\* the filtered model_list of Runner.__init__
ModelList(dir, c) ==
    {name \in DOMAIN dir :
        Last3(name) = <<"p", "t", "h">> /\ NameIter(name) <= c.end_iter}

\* model_list.sort(); model_list[-1]
LatestModelName(list) ==
    CHOOSE name \in list : \A other \in list : other = name \/ StrLess(other, name)

----------------------------------------------------------------------------
(* Configuration text *)

Placeholder == <<"C", "A", "S", "E", "_", "N", "A", "M", "E">>

StartsWith(s, prefix) ==
    Len(s) >= Len(prefix) /\ SubSeq(s, 1, Len(prefix)) = prefix

RECURSIVE StrReplaceFirst(_, _, _)
\* a variant that replaces the first occurrence only
StrReplaceFirst(s, old, new) ==
    IF s = <<>> THEN <<>>
    ELSE IF StartsWith(s, old) THEN new \o SubSeq(s, Len(old) + 1, Len(s))
         ELSE <<Head(s)>> \o StrReplaceFirst(Tail(s), old, new)

RECURSIVE StrReplace(_, _, _)
\* Python's s.replace(old, new) for a non-empty old: one scan from the left,
\* each occurrence found replaced, the scan resumed after it
StrReplace(s, old, new) ==
    IF s = <<>> THEN <<>>
    ELSE IF StartsWith(s, old)
         THEN new \o StrReplace(SubSeq(s, Len(old) + 1, Len(s)), old, new)
         ELSE <<Head(s)>> \o StrReplace(Tail(s), old, new)

RECURSIVE AfterFirst(_, _)
\* the text after the first occurrence of character c (empty when there is none)
AfterFirst(s, c) ==
    IF s = <<>> THEN <<>>
    ELSE IF Head(s) = c THEN Tail(s) ELSE AfterFirst(Tail(s), c)

\* ConfigFactory.parse_string(conf_text)['dataset.data_dir']: the value of the
\* key, which the model's configuration texts end with
ParsedDataDir(text) == AfterFirst(text, "=")

\* conf_text.replace('CASE_NAME', case)
SubstitutedText(text, case) == StrReplace(text, Placeholder, case)

\* self.conf['dataset.data_dir'].replace('CASE_NAME', case)
SubstitutedDataDir(text, case) == StrReplace(ParsedDataDir(text), Placeholder, case)

----------------------------------------------------------------------------
(* Runner.__init__ *)

\* the state of a process that has constructed nothing yet
NoRunner ==
    /\ conf_text = <<>> /\ data_dir = <<>>
    /\ iter_step = 0 /\ nets = FreshNets /\ optimizer = FreshOptimizer(conf)
    /\ loaded = NoName

\* no method has returned a value
NoOp ==
    /\ ret = <<>> /\ rays = <<>>
    /\ all_psnr = <<>> /\ all_normal_mae = <<>>
    /\ images = <<>> /\ video = <<>>
    /\ data_files = <<>>

NoTrain ==
    /\ image_perm = <<>> /\ loop_i = 0 /\ res_step = 0
    /\ best_val_metric = NoneVal /\ best_val_iter = 0
    /\ patience_counter = Unbound /\ early_stop = FALSE
    /\ losses_val = <<>> /\ psnrs_val = <<>> /\ writer = "none"
    /\ val_iters = <<>> /\ drawn = <<>> /\ prev_perm = <<>> /\ prev_drawn = <<>>
    /\ start_iter = 0 /\ steps_taken = 0

\* Runner(conf_path, mode, case, is_continue, checkpoint)
RunnerInit(case, is_continue, checkpoint) ==
    LET list == ModelList(ckpt_dir, conf)
        scan == checkpoint \/ is_continue
    IN  /\ conf_text' = SubstitutedText(conf_file, case)
        /\ data_dir' = SubstitutedDataDir(SubstitutedText(conf_file, case), case)
        /\ IF scan /\ list = {}
           THEN \* model_list[-1] of an empty list
                /\ pc' = "init_error"
                /\ UNCHANGED <<iter_step, nets, optimizer, loaded>>
           ELSE IF scan
           THEN LET latest_model_name == LatestModelName(list)
                    checkpoint_ == ckpt_dir[latest_model_name]
                IN  /\ nets' = LoadedNets(checkpoint_)
                    /\ optimizer' = LoadedOptimizer(checkpoint_)
                    /\ iter_step' = LoadedIterStep(checkpoint_)
                    /\ loaded' = latest_model_name
                    /\ pc' = "constructed"
           ELSE /\ pc' = "constructed"
                /\ UNCHANGED <<iter_step, nets, optimizer, loaded>>
        /\ UNCHANGED <<conf, conf_file, ckpt_dir, calls, loopVars, histVars, opVars, events,
                       saved>>

----------------------------------------------------------------------------
(* Runner.train *)

\* torch.randperm(n): the orders of the image indices 0 .. n-1
Perms(n) ==
    {p \in [1..n -> 0..(n - 1)] : \A i, j \in 1..n : i # j => p[i] # p[j]}

\* the networks after loss.backward(); optimizer.step()
OptimizerStep(n) == [k \in DOMAIN n |-> n[k] + 4]

Ev(op, at, resolution, world_space, save_numpy_sdf) ==
    [op |-> op, iter |-> at, resolution |-> resolution,
     world_space |-> world_space, save_numpy_sdf |-> save_numpy_sdf]

\* validate_mesh(world_space, resolution, save_numpy_sdf) writes meshes/<iter>.ply
MeshEv(at, resolution, world_space, save_numpy_sdf) ==
    Ev("validate_mesh", at, resolution, world_space, save_numpy_sdf)

PlainEv(op, at) == Ev(op, at, 0, FALSE, FALSE)

DefaultResolution == 64
FinalResolution == 512
SdfDumpAfter == 24000

\* the image index train() reads at iteration t
PermIndex(t, perm) == perm[(t % Len(perm)) + 1]

\* a variant that saves one iteration after each multiple of save_freq
SaveDueLate(t, c) == (t - 1) % c.save_freq = 0

\* train(): if self.iter_step % self.save_freq == 0
SaveDue(t, c) == t % c.save_freq = 0

\* train(): if self.iter_step % self.val_freq == 0
ValDue(t, c) == t % c.val_freq = 0

\* a variant that also counts a tie with the best as an improvement
ImprovesOrTies(loss, best) == best = NoneVal \/ loss <= best

\* train(): if self.best_val_metric is None or loss < self.best_val_metric
Improves(loss, best) == best = NoneVal \/ loss < best

\* a variant that stops one check late
PatienceSpentLate(counter, c) == counter > c.patience

\* train(): if patience_counter >= self.patience
PatienceSpent(counter, c) == counter >= c.patience

\* train(): if self.iter_step % len(image_perm) == 0
PermDue(t, perm) == t % Len(perm) = 0

\* a variant that dumps the signed-distance volume from iteration 24000 on
CadencedMeshDumpEarly(t, c) ==
    IF t = c.end_iter THEN <<MeshEv(t, FinalResolution, FALSE, FALSE)>>
    ELSE IF t % c.val_mesh_freq = 0
         THEN <<MeshEv(t, DefaultResolution, FALSE, t >= SdfDumpAfter)>>
         ELSE <<>>

\* train(): the mesh validate_mesh exports at the end of iteration t, if any
CadencedMesh(t, c) ==
    IF t = c.end_iter THEN <<MeshEv(t, FinalResolution, FALSE, FALSE)>>
    ELSE IF t % c.val_mesh_freq = 0
         THEN <<MeshEv(t, DefaultResolution, FALSE, t > SdfDumpAfter)>>
         ELSE <<>>

\* a variant that skips the final mesh
ExitEventsNoMesh(t) ==
    <<PlainEv("loss_curve", t), PlainEv("psnr_curve", t), PlainEv("writer_close", t)>>

\* train(): what follows the loop
ExitEvents(t) ==
    <<PlainEv("loss_curve", t), PlainEv("psnr_curve", t),
      MeshEv(t, FinalResolution, FALSE, FALSE), PlainEv("writer_close", t)>>

\* a variant that runs one iteration too many
ResStepOneMore(t, c) == c.end_iter - t + 1

\* train(): res_step = self.end_iter - self.iter_step
ResStep(t, c) == c.end_iter - t

\* a variant that starts from a best metric of 0
FreshBookkeepingBestZero ==
    [best_val_metric |-> 0, best_val_iter |-> 0, patience_counter |-> Unbound,
     early_stop |-> FALSE]

\* train(): best_val_metric = None, best_val_iter = 0, early_stop = False;
\* the local patience_counter is not yet bound
FreshBookkeeping ==
    [best_val_metric |-> NoneVal, best_val_iter |-> 0, patience_counter |-> Unbound,
     early_stop |-> FALSE]

\* a variant that keeps the rate the optimizer state came with
EntryLearningRateKept(opt, t, c) == opt

\* train(): self.update_learning_rate() before the loop
EntryLearningRate(opt, t, c) == UpdateLearningRate(opt, t, c)

\* train() up to the loop
TrainBegin ==
    /\ pc = "train"
    /\ writer' = "open"
    /\ IF ~LearningFactorDefined(iter_step, conf)
       THEN /\ pc' = "error"
            /\ UNCHANGED <<optimizer, image_perm, res_step, start_iter>>
       ELSE /\ pc' = "loop"
            /\ optimizer' = EntryLearningRate(optimizer, iter_step, conf)
            /\ res_step' = ResStep(iter_step, conf)
            /\ \E p \in Perms(conf.n_images) : image_perm' = p
            /\ start_iter' = iter_step
    /\ best_val_metric' = FreshBookkeeping.best_val_metric
    /\ best_val_iter' = FreshBookkeeping.best_val_iter
    /\ patience_counter' = FreshBookkeeping.patience_counter
    /\ early_stop' = FreshBookkeeping.early_stop
    /\ losses_val' = <<>> /\ psnrs_val' = <<>>
    /\ loop_i' = 0 /\ steps_taken' = 0
    /\ val_iters' = <<>> /\ drawn' = <<>> /\ prev_perm' = <<>> /\ prev_drawn' = <<>>
    /\ UNCHANGED <<conf, conf_file, ckpt_dir, cliVars, conf_text, data_dir, iter_step,
                   nets, loaded, opVars, events, saved>>

\* one iteration of the loop of train(), with the loss and PSNR of its batch
TrainStep(loss, psnr) ==
    /\ pc = "loop" /\ loop_i < res_step /\ ~early_stop
    /\ LET t == iter_step + 1
           nets1 == OptimizerStep(nets)
           opt1 == [optimizer EXCEPT !.step = @ + 1]
           do_save == SaveDue(t, conf)
           do_val == ValDue(t, conf)
           improved == Improves(loss, best_val_metric)
           counter == IF improved THEN 0 ELSE patience_counter + 1
           unbound == do_val /\ ~improved /\ patience_counter = Unbound
           stop == do_val /\ ~improved /\ PatienceSpent(counter, conf)
           lr_fails == ~stop /\ ~LearningFactorDefined(t, conf)
           kept == do_val /\ ~unbound
           bookkeeping ==
               [best_val_iter |-> IF kept /\ improved THEN t ELSE best_val_iter,
                patience_counter |-> IF kept THEN counter ELSE patience_counter,
                early_stop |-> IF kept THEN stop ELSE early_stop]
           ev_save == IF do_save THEN <<PlainEv("save_checkpoint", t)>> ELSE <<>>
           ev_val == IF do_val THEN <<PlainEv("validate_image", t)>> ELSE <<>>
           ev_mesh == IF stop THEN <<>> ELSE CadencedMesh(t, conf)
       IN  /\ drawn' = IF ~stop /\ ~lr_fails /\ PermDue(t, image_perm)
                       THEN <<>>
                       ELSE Append(drawn, PermIndex(iter_step, image_perm))
           /\ nets' = nets1
           /\ optimizer' = IF stop \/ lr_fails THEN opt1
                           ELSE UpdateLearningRate(opt1, t, conf)
           /\ iter_step' = t
           /\ steps_taken' = steps_taken + 1
           /\ loop_i' = loop_i + 1
           /\ ckpt_dir' = IF do_save THEN SaveCheckpoint(ckpt_dir, nets1, opt1, t)
                          ELSE ckpt_dir
           /\ saved' = IF do_save
                       THEN WriteFile(saved, CheckpointName(t),
                                      [nets |-> nets1, optimizer |-> opt1, iter_step |-> t,
                                       bookkeeping |-> bookkeeping])
                       ELSE saved
           /\ IF do_val /\ ~unbound
              THEN /\ losses_val' = Append(losses_val, loss)
                   /\ psnrs_val' = Append(psnrs_val, psnr)
                   /\ val_iters' = Append(val_iters, t)
                   /\ best_val_metric' = IF improved THEN loss ELSE best_val_metric
                   /\ best_val_iter' = IF improved THEN t ELSE best_val_iter
                   /\ patience_counter' = counter
                   /\ early_stop' = stop
              ELSE /\ losses_val' = IF do_val THEN Append(losses_val, loss) ELSE losses_val
                   /\ psnrs_val' = IF do_val THEN Append(psnrs_val, psnr) ELSE psnrs_val
                   /\ val_iters' = IF do_val THEN Append(val_iters, t) ELSE val_iters
                   /\ UNCHANGED <<best_val_metric, best_val_iter, patience_counter,
                                  early_stop>>
           /\ events' = events \o ev_save \o ev_val
                        \o (IF unbound THEN <<>> ELSE ev_mesh)
           /\ pc' = IF unbound \/ lr_fails THEN "error" ELSE "loop"
           /\ IF ~stop /\ ~unbound /\ ~lr_fails /\ PermDue(t, image_perm)
              THEN /\ \E new_perm \in Perms(Len(image_perm)) : image_perm' = new_perm
                   /\ prev_perm' = image_perm
                   /\ prev_drawn' = Append(drawn, PermIndex(iter_step, image_perm))
              ELSE UNCHANGED <<image_perm, prev_perm, prev_drawn>>
    /\ UNCHANGED <<conf, conf_file, cliVars, conf_text, data_dir, res_step, writer,
                   loaded, start_iter, opVars>>

\* train() after the loop: the curves, the final mesh, the writer closed
TrainFinish ==
    /\ pc = "loop" /\ (loop_i = res_step \/ early_stop)
    /\ events' = events \o ExitEvents(iter_step)
    /\ writer' = "closed"
    /\ pc' = "done"
    /\ UNCHANGED <<conf, conf_file, ckpt_dir, cliVars, runnerVars, image_perm, loop_i,
                   res_step, best_val_metric, best_val_iter, patience_counter,
                   early_stop, losses_val, psnrs_val, histVars, opVars, saved>>

\* the process ends (train() returned, an error was raised, or it was killed);
\* what it wrote to the checkpoints directory stays
ProcessEnds ==
    /\ pc \in {"init_error", "constructed", "dispatched", "train", "loop", "done",
              "error", "evaluate", "evaluated", "interpolate", "interpolated"}
    /\ pc' = "start"
    /\ conf_text' = <<>> /\ data_dir' = <<>>
    /\ iter_step' = 0 /\ nets' = FreshNets /\ optimizer' = FreshOptimizer(conf)
    /\ loaded' = NoName
    /\ image_perm' = <<>> /\ loop_i' = 0 /\ res_step' = 0
    /\ best_val_metric' = NoneVal /\ best_val_iter' = 0
    /\ patience_counter' = Unbound /\ early_stop' = FALSE
    /\ losses_val' = <<>> /\ psnrs_val' = <<>> /\ writer' = "none"
    /\ val_iters' = <<>> /\ drawn' = <<>> /\ prev_perm' = <<>> /\ prev_drawn' = <<>>
    /\ start_iter' = 0 /\ steps_taken' = 0
    /\ events' = <<>> /\ calls' = <<>> /\ args' = DefaultArgs
    /\ ret' = <<>> /\ rays' = <<>>
    /\ all_psnr' = <<>> /\ all_normal_mae' = <<>>
    /\ images' = <<>> /\ video' = <<>>
    /\ UNCHANGED <<conf, conf_file, ckpt_dir, data_files, saved>>

----------------------------------------------------------------------------
(* __main__ *)

RECURSIVE Split(_, _)
\* Python's s.split(c): the pieces between the occurrences of character c
Split(s, c) ==
    IF s = <<>> THEN << <<>> >>
    ELSE LET rest == Split(Tail(s), c)
         IN  IF Head(s) = c THEN << <<>> >> \o rest
             ELSE << <<Head(s)>> \o rest[1] >> \o Tail(rest)

Call(op, idx_0, idx_1, resolution, threshold, world_space, save_numpy_sdf) ==
    [op |-> op, idx_0 |-> idx_0, idx_1 |-> idx_1, resolution |-> resolution,
     threshold |-> threshold, world_space |-> world_space,
     save_numpy_sdf |-> save_numpy_sdf]

CallTrain == Call("train", 0, 0, 0, 0, FALSE, FALSE)
CallEvaluate == Call("evaluate", 0, 0, 0, 0, FALSE, FALSE)
CallValidateMesh(threshold) ==
    Call("validate_mesh", 0, 0, FinalResolution, threshold, FALSE, FALSE)
CallInterpolateView(idx_0, idx_1) ==
    Call("interpolate_view", idx_0, idx_1, 0, 0, FALSE, FALSE)

\* _, img_idx_0, img_idx_1 = args.mode.split('_'); int(img_idx_0); int(img_idx_1)
InterpolateFails(mode) ==
    LET parts == Split(mode, "_")
    IN  Len(parts) # 3 \/ ~IntOk(parts[2]) \/ ~IntOk(parts[3])

\* a variant that passes the two indices in the other order
InterpolateCallSwapped(mode) ==
    LET parts == Split(mode, "_")
    IN  CallInterpolateView(IntOf(parts[3]), IntOf(parts[2]))

\* runner.interpolate_view(img_idx_0, img_idx_1)
InterpolateCall(mode) ==
    LET parts == Split(mode, "_")
    IN  CallInterpolateView(IntOf(parts[2]), IntOf(parts[3]))

\* whether the if/elif chain of __main__ raises for this command line
DispatchFails(a) ==
    /\ a.mode \notin {ModeTrain, ModeEvaluate, ModeValidateMesh}
    /\ StartsWith(a.mode, Interpolate)
    /\ InterpolateFails(a.mode)

\* the Runner operations the if/elif chain of __main__ invokes
DispatchCalls(a) ==
    IF a.mode = ModeTrain THEN <<CallTrain>>
    ELSE IF a.mode = ModeEvaluate THEN <<CallEvaluate>>
    ELSE IF a.mode = ModeValidateMesh THEN <<CallValidateMesh(a.mcube_threshold)>>
    ELSE IF StartsWith(a.mode, Interpolate) /\ ~InterpolateFails(a.mode)
         THEN <<InterpolateCall(a.mode)>>
         ELSE <<>>

\* the process is started: args = parser.parse_args(), then
\* runner = Runner(args.conf, args.mode, args.case, args.is_continue)
Launch(a) ==
    /\ pc = "start"
    /\ args' = a
    /\ RunnerInit(a.case, a.is_continue, FALSE)

\* the if/elif chain on args.mode; train() itself is TrainBegin .. TrainFinish
Dispatch ==
    /\ pc = "constructed"
    /\ calls' = calls \o DispatchCalls(args)
    /\ pc' = IF DispatchFails(args) THEN "error"
             ELSE IF args.mode = ModeTrain THEN "train"
             ELSE "dispatched"
    /\ UNCHANGED <<conf, conf_file, ckpt_dir, args, runnerVars, loopVars, histVars, opVars,
                   events, saved>>

----------------------------------------------------------------------------
(* The training specification: launches, training runs, interruptions *)

\* learning rates are in units of 1/Scale
TrainConf(e, s, v, p, n) ==
    [end_iter |-> e, save_freq |-> s, val_freq |-> v, val_mesh_freq |-> 3,
     patience |-> p, n_images |-> n, warm_up_end |-> 2,
     learning_rate |-> Scale, learning_rate_alpha |-> Scale \div 20,
     anneal_end |-> 0, batch_size |-> 1]

TrainConfs ==
    {TrainConf(e, 2, v, p, n) :
        e \in {MaxEndIter - 1, MaxEndIter}, v \in {1, 2}, p \in {1, 2}, n \in {2, 3}}

Losses == 0..MaxLoss

Psnrs == {25}

ExampleConfFile ==
    <<"d", "=", "/">> \o Placeholder

\* python exp_runner_psnerf.py --mode train --case b [--is_continue]
TrainCommandLines ==
    {CommandLine(ModeTrain, <<"b">>, is_continue, 0, 0) : is_continue \in BOOLEAN}

Init ==
    /\ conf \in TrainConfs
    /\ conf_file = ExampleConfFile
    /\ ckpt_dir = <<>>
    /\ saved = <<>>
    /\ args = DefaultArgs
    /\ calls = <<>>
    /\ pc = "start"
    /\ events = <<>>
    /\ NoRunner
    /\ NoTrain
    /\ NoOp

Next ==
    \/ \E a \in TrainCommandLines : Launch(a)
    \/ Dispatch
    \/ TrainBegin
    \/ \E loss \in Losses, psnr \in Psnrs : TrainStep(loss, psnr)
    \/ TrainFinish
    \/ ProcessEnds

Spec == Init /\ [][Next]_vars

----------------------------------------------------------------------------
(* Resuming: checkpoints left by earlier runs, then a launch *)

\* an earlier run (configured to run at least to iteration k >= 1) reaches
\* iteration k on its save cadence and calls save_checkpoint()
EarlierRunSaves(k) ==
    /\ pc = "start"
    /\ LET c == [conf EXCEPT !.end_iter = IF k > @ THEN k ELSE @]
           opt == UpdateLearningRate([FreshOptimizer(c) EXCEPT !.step = k], k - 1, c)
       IN  /\ ckpt_dir' = SaveCheckpoint(ckpt_dir, NetsAfter(k), opt, k)
           /\ saved' = WriteFile(saved, CheckpointName(k),
                                 [nets |-> NetsAfter(k), optimizer |-> opt,
                                  iter_step |-> k])
    /\ UNCHANGED <<conf, conf_file, cliVars, pc, runnerVars, loopVars, histVars, opVars,
                   events>>

\* iteration numbers around the widths of the checkpoint name
CkptIters ==
    {5, 99, 100, 10 ^ PadWidth - 1, 10 ^ PadWidth, 10 ^ PadWidth + 1}

ResumeConfs ==
    {TrainConf(e, 1, 1, 2, 2) : e \in {100, 10 ^ PadWidth - 1, 10 ^ PadWidth + 1}}

InitResume ==
    /\ conf \in ResumeConfs
    /\ conf_file = ExampleConfFile
    /\ ckpt_dir = <<>>
    /\ saved = <<>>
    /\ args = DefaultArgs
    /\ calls = <<>>
    /\ pc = "start"
    /\ events = <<>>
    /\ NoRunner
    /\ NoTrain
    /\ NoOp

NextResume ==
    \/ \E k \in CkptIters : EarlierRunSaves(k)
    \/ \E a \in TrainCommandLines : Launch(a)
    \/ ProcessEnds

SpecResume == InitResume /\ [][NextResume]_vars

----------------------------------------------------------------------------
(* The command line: every mode, with and without the resume flags *)

MaxSuffix == 5

ModeOther == <<"t", "e", "s", "t">>

SuffixChars == {"_", "1", "2", "x"}

\* mode strings that start with 'interpolate'
InterpolateModes ==
    {Interpolate \o suffix :
        suffix \in UNION {[1..k -> SuffixChars] : k \in 0..MaxSuffix}}

MainCommandLines ==
    {CommandLine(m, <<"b">>, FALSE, 0, 0) : m \in InterpolateModes}
    \cup {CommandLine(m, <<"b">>, is_continue, checkpoint, threshold) :
            m \in {ModeTrain, ModeEvaluate, ModeValidateMesh, ModeOther},
            is_continue \in BOOLEAN, checkpoint \in {0, 2},
            threshold \in {0, Scale \div 2}}

InitMain ==
    /\ conf = TrainConf(MaxEndIter, 2, 1, 2, 2)
    /\ conf_file = ExampleConfFile
    /\ ckpt_dir = <<>>
    /\ saved = <<>>
    /\ args = DefaultArgs
    /\ calls = <<>>
    /\ pc = "start"
    /\ events = <<>>
    /\ NoRunner
    /\ NoTrain
    /\ NoOp

NextMain ==
    \/ \E k \in {2, 4} : EarlierRunSaves(k)
    \/ \E a \in MainCommandLines : Launch(a)
    \/ Dispatch
    \/ ProcessEnds

SpecMain == InitMain /\ [][NextMain]_vars

----------------------------------------------------------------------------
(* Configuration texts and case identifiers *)

MaxFragments == 3

Fragments ==
    {<<"C", "A", "S", "E", "_">>, <<"N", "A", "M", "E">>, Placeholder, <<"x">>, <<"/">>}

RECURSIVE Joined(_)
Joined(pieces) == IF pieces = <<>> THEN <<>> ELSE Head(pieces) \o Joined(Tail(pieces))

\* the texts made of at most n fragments
FragmentTexts(n) == {Joined(pieces) : pieces \in UNION {[1..k -> Fragments] : k \in 0..n}}

\* configuration files: some text, then the dataset.data_dir key and its value
ConfFiles ==
    {before \o <<"d", "=">> \o value :
        before \in FragmentTexts(1), value \in FragmentTexts(MaxFragments)}

Cases ==
    {<<>>, <<"b">>, <<"b", "e", "a", "r">>, <<"N", "A", "M", "E">>, Placeholder}

ConfCommandLines == {CommandLine(ModeTrain, case, FALSE, 0, 0) : case \in Cases}

InitConf ==
    /\ conf = TrainConf(MaxEndIter, 2, 1, 2, 2)
    /\ conf_file \in ConfFiles
    /\ ckpt_dir = <<>>
    /\ saved = <<>>
    /\ args = DefaultArgs
    /\ calls = <<>>
    /\ pc = "start"
    /\ events = <<>>
    /\ NoRunner
    /\ NoTrain
    /\ NoOp

NextConf ==
    \/ \E a \in ConfCommandLines : Launch(a)
    \/ ProcessEnds

SpecConf == InitConf /\ [][NextConf]_vars

----------------------------------------------------------------------------
(* The learning-rate schedule: update_learning_rate() at any iteration of any
   configuration *)

MaxWarmUp == 3
MaxLREnd == 6

LRConf(w, e, alpha, base) ==
    [TrainConf(e, 2, 1, 2, 2) EXCEPT
        !.warm_up_end = w, !.learning_rate_alpha = alpha, !.learning_rate = base]

\* warm_up_end = 100, end_iter = 1100, learning_rate_alpha = 0.05, base_lr = 1.0
ExampleLRConf == LRConf(100, 1100, Scale \div 20, Scale)

LRConfs ==
    {LRConf(w, e, alpha, base) :
        w \in 0..MaxWarmUp, e \in 1..MaxLREnd,
        alpha \in {0, Scale \div 20, Scale}, base \in {Scale, 2 * Scale}}
    \cup {ExampleLRConf}

\* a Runner of any configuration at any iteration up to end_iter
InitLR ==
    /\ conf \in LRConfs
    /\ iter_step \in 0..conf.end_iter
    /\ optimizer = [FreshOptimizer(conf) EXCEPT !.step = iter_step]
    /\ nets = NetsAfter(iter_step)
    /\ conf_text = <<>> /\ data_dir = <<>> /\ loaded = NoName
    /\ conf_file = ExampleConfFile
    /\ ckpt_dir = <<>>
    /\ saved = <<>>
    /\ args = DefaultArgs
    /\ calls = <<>>
    /\ pc = "constructed"
    /\ events = <<>>
    /\ NoTrain
    /\ NoOp

\* self.get_cos_anneal_ratio(), in units of 1/Scale; anneal_end is a float
\* holding a whole number of iterations
CosAnnealRatioUnclipped(t, c) ==
    IF c.anneal_end = 0 THEN Scale ELSE (t * Scale) \div c.anneal_end

CosAnnealRatio(t, c) ==
    IF c.anneal_end = 0 THEN Scale
    ELSE LET r == (t * Scale) \div c.anneal_end
         IN  IF Scale <= r THEN Scale ELSE r

\* self.update_learning_rate()
CallUpdateLearningRate ==
    /\ pc = "constructed"
    /\ IF LearningFactorDefined(iter_step, conf)
       THEN /\ optimizer' = UpdateLearningRate(optimizer, iter_step, conf)
            /\ pc' = "lr_updated"
       ELSE /\ pc' = "error"
            /\ UNCHANGED optimizer
    /\ UNCHANGED <<conf, conf_file, ckpt_dir, cliVars, conf_text, data_dir, iter_step,
                   nets, loaded, loopVars, histVars, opVars, events, saved>>

NextLR == CallUpdateLearningRate

SpecLR == InitLR /\ [][NextLR]_vars

----------------------------------------------------------------------------
(* The cosine-anneal ratio: get_cos_anneal_ratio() at any iteration *)

MaxAnnealEnd == 8
MaxAnnealIter == 12

AnnealConf(a, e) == [TrainConf(e, 2, 1, 2, 2) EXCEPT !.anneal_end = a]

\* anneal_end = 1000 in a run of 1200 iterations
ExampleAnnealConf == AnnealConf(1000, 1200)

AnnealConfs ==
    {AnnealConf(a, e) : a \in 0..MaxAnnealEnd, e \in 1..MaxAnnealIter}
    \cup {ExampleAnnealConf}

InitAnneal ==
    /\ conf \in AnnealConfs
    /\ iter_step \in 0..conf.end_iter
    /\ optimizer = [FreshOptimizer(conf) EXCEPT !.step = iter_step]
    /\ nets = NetsAfter(iter_step)
    /\ conf_text = <<>> /\ data_dir = <<>> /\ loaded = NoName
    /\ conf_file = ExampleConfFile
    /\ ckpt_dir = <<>>
    /\ saved = <<>>
    /\ args = DefaultArgs
    /\ calls = <<>>
    /\ pc = "constructed"
    /\ events = <<>>
    /\ NoTrain
    /\ NoOp

\* self.get_cos_anneal_ratio()
CallGetCosAnnealRatio ==
    /\ pc = "constructed"
    /\ ret' = CosAnnealRatio(iter_step, conf)
    /\ pc' = "ratio_returned"
    /\ UNCHANGED <<conf, conf_file, ckpt_dir, cliVars, runnerVars, loopVars, histVars,
                   rays, data_files, all_psnr, all_normal_mae, images, video, events, saved>>

NextAnneal == CallGetCosAnnealRatio

SpecAnneal == InitAnneal /\ [][NextAnneal]_vars

----------------------------------------------------------------------------
(* Dataset.near_far_from_sphere on one ray *)

MaxCoord == 1

\* float tensors: a finite value in units of 1/Scale, an infinity or nan
Num(v) == [kind |-> "num", v |-> v]
NaN == [kind |-> "nan", v |-> 0]
Inf(sign) == [kind |-> "inf", v |-> sign]

\* x / y of two finite values (IEEE 754: 0/0 is nan, x/0 is an infinity),
\* rounded toward zero to 1/Scale
FDiv(x, y) ==
    IF y.v = 0
    THEN IF x.v = 0 THEN NaN ELSE Inf(IF x.v < 0 THEN -1 ELSE 1)
    ELSE LET neg == (x.v < 0) # (y.v < 0)
             ax == IF x.v < 0 THEN -x.v ELSE x.v
             ay == IF y.v < 0 THEN -y.v ELSE y.v
             q == (ax * Scale) \div ay
         IN  Num(IF neg THEN -q ELSE q)

\* x + k for a finite k
FAdd(x, k) == IF x.kind = "num" THEN Num(x.v + k) ELSE x

\* x - y
FSub(x, y) ==
    IF x.kind = "nan" \/ y.kind = "nan" THEN NaN
    ELSE IF x.kind = "inf" /\ y.kind = "inf"
         THEN IF x.v = y.v THEN NaN ELSE x
    ELSE IF x.kind = "inf" THEN x
    ELSE IF y.kind = "inf" THEN Inf(-y.v)
    ELSE Num(x.v - y.v)

\* x < y and x == y; every comparison with nan is false
FLess(x, y) ==
    /\ x.kind # "nan" /\ y.kind # "nan"
    /\ IF x.kind = "num" /\ y.kind = "num" THEN x.v < y.v
       ELSE IF x.kind = "inf" /\ y.kind = "inf" THEN x.v < y.v
       ELSE IF x.kind = "inf" THEN x.v < 0
       ELSE y.v > 0

FEq(x, y) == x.kind # "nan" /\ y.kind # "nan" /\ x = y

Dot(u, v) == u[1] * v[1] + u[2] * v[2] + u[3] * v[3]

\* mid = 0.5 * (-b) / a with a = sum(d^2) and b = 2 * sum(o * d)
RayMid(o, d) ==
    LET a == Dot(d, d)
        b == 2 * Dot(o, d)
    IN  FDiv(Num((-b * Scale) \div 2), Num(a * Scale))

NearFarFromSphere(o, d) ==
    [near |-> FAdd(RayMid(o, d), -Scale), far |-> FAdd(RayMid(o, d), Scale)]

Vectors == [1..3 -> (-MaxCoord)..MaxCoord]

InitRays ==
    /\ conf = TrainConf(MaxEndIter, 2, 1, 2, 2)
    /\ conf_file = ExampleConfFile
    /\ ckpt_dir = <<>>
    /\ saved = <<>>
    /\ args = DefaultArgs
    /\ calls = <<>>
    /\ pc = "constructed"
    /\ events = <<>>
    /\ NoRunner
    /\ NoTrain
    /\ ret = <<>>
    /\ all_psnr = <<>> /\ all_normal_mae = <<>>
    /\ images = <<>> /\ video = <<>>
    /\ data_files = <<>>
    /\ rays \in [o : Vectors, d : Vectors]

\* self.dataset.near_far_from_sphere(rays_o, rays_d)
CallNearFarFromSphere ==
    /\ pc = "constructed"
    /\ ret' = NearFarFromSphere(rays.o, rays.d)
    /\ pc' = "near_far_returned"
    /\ UNCHANGED <<conf, conf_file, ckpt_dir, cliVars, runnerVars, loopVars, histVars,
                   rays, data_files, all_psnr, all_normal_mae, images, video, events, saved>>

NextRays == CallNearFarFromSphere

SpecRays == InitRays /\ [][NextRays]_vars

----------------------------------------------------------------------------
(* Dataset.__init__ of dataset_diligentMV *)

NumViews == 20
MaxDirs == 22

\* [x] * n
Repeat(x, n) == [i \in 1..n |-> x]

\* the loader cannot be built: np.stack of no image, or a camera Rc_k / Tc_k
\* that the calibration file does not hold
DatasetFails(files) ==
    \/ files.with_image = 0
    \/ files.with_image > files.cameras
    \/ files.cameras < NumViews

\* Dataset(conf): images_list has one entry per subdirectory that holds the
\* image, intrinsics_all one copy of K per image, pose_all the inverse of the
\* world-to-camera matrix of the views 1 .. NumViews
DatasetInit(files) ==
    [n_images |-> files.with_image,
     images_list |-> [i \in 1..files.with_image |-> i],
     intrinsics_all |-> Repeat("K", files.with_image),
     pose_all |-> [view_idx \in 1..NumViews |-> view_idx]]

\* the dataset directories: subdirectories of image_dir with and without the
\* image, and the cameras Rc_k, Tc_k of the calibration file
DataFiles ==
    {[with_image |-> k, without_image |-> m, cameras |-> c] :
        k \in 0..MaxDirs, m \in 0..1, c \in {NumViews - 1, NumViews, MaxDirs}}

InitData ==
    /\ conf = TrainConf(MaxEndIter, 2, 1, 2, 2)
    /\ conf_file = ExampleConfFile
    /\ ckpt_dir = <<>>
    /\ saved = <<>>
    /\ args = DefaultArgs
    /\ calls = <<>>
    /\ pc = "start"
    /\ events = <<>>
    /\ NoRunner
    /\ NoTrain
    /\ ret = <<>> /\ rays = <<>>
    /\ all_psnr = <<>> /\ all_normal_mae = <<>>
    /\ images = <<>> /\ video = <<>>
    /\ data_files \in DataFiles

\* self.dataset = Dataset(self.conf['dataset'])
CallDataset ==
    /\ pc = "start"
    /\ IF DatasetFails(data_files)
       THEN pc' = "init_error" /\ UNCHANGED ret
       ELSE pc' = "dataset_loaded" /\ ret' = DatasetInit(data_files)
    /\ UNCHANGED <<conf, conf_file, ckpt_dir, cliVars, runnerVars, loopVars, histVars,
                   rays, data_files, all_psnr, all_normal_mae, images, video, events,
                   saved>>

NextData == CallDataset

SpecData == InitData /\ [][NextData]_vars

----------------------------------------------------------------------------
(* Runner.evaluate *)

Maes == {3, 7}

\* a variant that reads the first entry of the permutation every time
EvalIndexFirst(perm, i) == perm[1]

\* evaluate(): image_perm[i]
EvalIndex(perm, i) == perm[i + 1]

\* evaluate() up to its loop: image_perm = self.get_image_perm()
EvaluateBegin ==
    /\ pc = "dispatched" /\ calls = <<CallEvaluate>>
    /\ \E p \in Perms(conf.n_images) : image_perm' = p
    /\ all_psnr' = <<>> /\ all_normal_mae' = <<>>
    /\ loop_i' = 0 /\ drawn' = <<>>
    /\ pc' = "evaluate"
    /\ UNCHANGED <<conf, conf_file, ckpt_dir, cliVars, runnerVars, res_step,
                   best_val_metric, best_val_iter, patience_counter, early_stop,
                   losses_val, psnrs_val, writer, val_iters, prev_perm, prev_drawn,
                   start_iter, steps_taken, ret, rays, data_files, images, video,
                   events, saved>>

\* one iteration of the loop of evaluate(), with the PSNR and normal MAE of
\* the rays it rendered
EvaluateImage(psnr, normal_mae) ==
    /\ pc = "evaluate" /\ loop_i < Len(image_perm)
    /\ drawn' = Append(drawn, EvalIndex(image_perm, loop_i))
    /\ all_psnr' = Append(all_psnr, psnr)
    /\ all_normal_mae' = Append(all_normal_mae, normal_mae)
    /\ loop_i' = loop_i + 1
    /\ UNCHANGED <<conf, conf_file, ckpt_dir, cliVars, pc, runnerVars, image_perm,
                   res_step, best_val_metric, best_val_iter, patience_counter,
                   early_stop, losses_val, psnrs_val, writer, val_iters, prev_perm,
                   prev_drawn, start_iter, steps_taken, ret, rays, data_files, images, video,
                   events, saved>>

\* evaluate() after its loop: the means are printed
EvaluateFinish ==
    /\ pc = "evaluate" /\ loop_i = Len(image_perm)
    /\ pc' = "evaluated"
    /\ events' = events \o <<PlainEv("print_means", iter_step)>>
    /\ UNCHANGED <<conf, conf_file, ckpt_dir, cliVars, runnerVars, loopVars, histVars,
                   opVars, saved>>

EvalConfs == {TrainConf(MaxEndIter, 2, 1, 2, n) : n \in 1..3}

EvalCommandLines ==
    {CommandLine(ModeEvaluate, <<"b">>, is_continue, 0, 0) : is_continue \in BOOLEAN}

InitEval ==
    /\ conf \in EvalConfs
    /\ conf_file = ExampleConfFile
    /\ ckpt_dir = <<>>
    /\ saved = <<>>
    /\ args = DefaultArgs
    /\ calls = <<>>
    /\ pc = "start"
    /\ events = <<>>
    /\ NoRunner
    /\ NoTrain
    /\ NoOp

NextEval ==
    \/ \E k \in {2, 4} : EarlierRunSaves(k)
    \/ \E a \in EvalCommandLines : Launch(a)
    \/ Dispatch
    \/ EvaluateBegin
    \/ \E psnr \in Psnrs, normal_mae \in Maes : EvaluateImage(psnr, normal_mae)
    \/ EvaluateFinish
    \/ ProcessEnds

SpecEval == InitEval /\ [][NextEval]_vars

----------------------------------------------------------------------------
(* Runner.interpolate_view *)

NFrames == 60
InterpolateResolutionLevel == 4

\* np.sin(((i / n_frames) - 0.5) * np.pi) * 0.5 + 0.5, which is
\* (1 - cos(pi * i / n_frames)) / 2
FrameRatio(i) == (Scale - CosPi(i, NFrames)) \div 2

\* render_novel_image(idx_0, idx_1, ratio, resolution_level): the image, tagged
\* with the ordinal of the call that rendered it
RenderNovelImage(idx_0, idx_1, ratio, resolution_level, ordinal) ==
    [idx_0 |-> idx_0, idx_1 |-> idx_1, ratio |-> ratio,
     resolution_level |-> resolution_level, render |-> ordinal]

RECURSIVE Reversed(_)
Reversed(s) == IF s = <<>> THEN <<>> ELSE Append(Reversed(Tail(s)), Head(s))

\* a variant that appends the frames in the same order
PingPongRepeated(frames) == frames \o frames

\* for i in range(n_frames): images.append(images[n_frames - i - 1])
PingPong(frames) == frames \o Reversed(frames)

\* self.dataset.pose_all[idx] of the PS-NeRF loader: one pose per view
PoseIndexOk(idx, c) == idx < c.n_images

\* interpolate_view() up to its first loop
InterpolateViewBegin ==
    /\ pc = "dispatched" /\ Len(calls) = 1 /\ calls[1].op = "interpolate_view"
    /\ images' = <<>> /\ video' = <<>> /\ loop_i' = 0
    /\ pc' = "interpolate"
    /\ UNCHANGED <<conf, conf_file, ckpt_dir, cliVars, runnerVars, image_perm, res_step,
                   best_val_metric, best_val_iter, patience_counter, early_stop,
                   losses_val, psnrs_val, writer, histVars, ret, rays, data_files, all_psnr,
                   all_normal_mae, events, saved>>

\* one iteration of the first loop: a frame is rendered and appended
InterpolateFrame ==
    /\ pc = "interpolate" /\ loop_i < NFrames
    /\ IF PoseIndexOk(calls[1].idx_0, conf) /\ PoseIndexOk(calls[1].idx_1, conf)
       THEN /\ images' = Append(images,
                               RenderNovelImage(calls[1].idx_0, calls[1].idx_1,
                                                FrameRatio(loop_i),
                                                InterpolateResolutionLevel,
                                                Len(images) + 1))
            /\ loop_i' = loop_i + 1
            /\ pc' = pc
       ELSE /\ pc' = "error"
            /\ UNCHANGED <<images, loop_i>>
    /\ UNCHANGED <<conf, conf_file, ckpt_dir, cliVars, runnerVars, image_perm, res_step,
                   best_val_metric, best_val_iter, patience_counter, early_stop,
                   losses_val, psnrs_val, writer, histVars, ret, rays, data_files, all_psnr,
                   all_normal_mae, video, events, saved>>

\* the second loop and the video: the frames, then the same frames reversed
InterpolateFinish ==
    /\ pc = "interpolate" /\ loop_i = NFrames
    /\ images' = PingPong(images)
    /\ video' = PingPong(images)
    /\ events' = events \o <<PlainEv("write_video", iter_step)>>
    /\ pc' = "interpolated"
    /\ UNCHANGED <<conf, conf_file, ckpt_dir, cliVars, runnerVars, loopVars, histVars,
                   ret, rays, data_files, all_psnr, all_normal_mae, saved>>

MaxIndex == 2

\* camera indices: those of the loaded views and the one after them
InterpIndices == 0..MaxIndex

InterpolateMode(a, b) ==
    Interpolate \o <<"_">> \o DecimalDigits(a) \o <<"_">> \o DecimalDigits(b)

InterpCommandLines ==
    {CommandLine(InterpolateMode(a, b), <<"b">>, is_continue, 0, 0) :
        a \in InterpIndices, b \in InterpIndices, is_continue \in BOOLEAN}

InitInterp ==
    /\ conf = TrainConf(MaxEndIter, 2, 1, 2, 2)
    /\ conf_file = ExampleConfFile
    /\ ckpt_dir = <<>>
    /\ saved = <<>>
    /\ args = DefaultArgs
    /\ calls = <<>>
    /\ pc = "start"
    /\ events = <<>>
    /\ NoRunner
    /\ NoTrain
    /\ NoOp

NextInterp ==
    \/ EarlierRunSaves(4)
    \/ \E a \in InterpCommandLines : Launch(a)
    \/ Dispatch
    \/ InterpolateViewBegin
    \/ InterpolateFrame
    \/ InterpolateFinish
    \/ ProcessEnds

SpecInterp == InitInterp /\ [][NextInterp]_vars

----------------------------------------------------------------------------
(* Training around iteration 24000: runs resumed from a late checkpoint *)

MaxLateIters == 4

LateConfs ==
    {[TrainConf(e, 2, v, p, 2) EXCEPT !.val_mesh_freq = m] :
        e \in {SdfDumpAfter + MaxLateIters - 1, SdfDumpAfter + MaxLateIters},
        v \in {1, 2}, p \in {1, 2}, m \in {1, 3}}

LateCommandLines == {CommandLine(ModeTrain, <<"b">>, TRUE, 0, 0)}

InitLate ==
    /\ conf \in LateConfs
    /\ conf_file = ExampleConfFile
    /\ ckpt_dir = <<>>
    /\ saved = <<>>
    /\ args = DefaultArgs
    /\ calls = <<>>
    /\ pc = "start"
    /\ events = <<>>
    /\ NoRunner
    /\ NoTrain
    /\ NoOp

NextLate ==
    \/ EarlierRunSaves(SdfDumpAfter - 2)
    \/ \E a \in LateCommandLines : Launch(a)
    \/ Dispatch
    \/ TrainBegin
    \/ \E loss \in Losses, psnr \in Psnrs : TrainStep(loss, psnr)
    \/ TrainFinish
    \/ ProcessEnds

SpecLate == InitLate /\ [][NextLate]_vars

----------------------------------------------------------------------------
(* Batched rendering in validate_image and render_novel_image *)

MaxH == 3
MaxW == 4
MaxBatch == 5

\* rays_o, rays_d of shape [H, W, 3]: the ray of pixel (h, w), named by its
\* position in row-major order
RayGrid(H, W) == [h \in 1..H |-> [w \in 1..W |-> (h - 1) * W + w]]

RECURSIVE Concatenate(_)
\* np.concatenate(list, axis=0)
Concatenate(list) ==
    IF list = <<>> THEN <<>> ELSE Head(list) \o Concatenate(Tail(list))

\* rays.reshape(-1, 3)
Flatten(grid) == Concatenate(grid)

\* flat.reshape([H, W, 3])
Reshape(flat, H, W) == [h \in 1..H |-> [w \in 1..W |-> flat[(h - 1) * W + w]]]

RECURSIVE TorchSplit(_, _)
\* tensor.split(batch_size): chunks of batch_size rows, the last one shorter
TorchSplit(flat, batch_size) ==
    IF Len(flat) <= batch_size THEN <<flat>>
    ELSE <<SubSeq(flat, 1, batch_size)>>
         \o TorchSplit(SubSeq(flat, batch_size + 1, Len(flat)), batch_size)

\* the colour the renderer gives a ray
ColorOf(ray) == 100 + ray

\* self.renderer.render(rays_o_batch, rays_d_batch, ...): color_fine always,
\* gradients and weights when the renderer has them
RenderOut(batch, has_normals) ==
    [color_fine |-> [i \in 1..Len(batch) |-> ColorOf(batch[i])],
     gradients |-> IF has_normals THEN [i \in 1..Len(batch) |-> -batch[i]] ELSE <<>>,
     feasible_normals |-> has_normals]

RECURSIVE RenderLoopPrepend(_, _, _)
\* a variant that puts each batch's colours in front of the earlier ones
RenderLoopPrepend(batches, has_normals, out) ==
    IF batches = <<>> THEN out
    ELSE LET render_out == RenderOut(Head(batches), has_normals)
         IN  RenderLoopPrepend(Tail(batches), has_normals,
                        [out_rgb_fine |-> <<render_out.color_fine>> \o out.out_rgb_fine,
                         out_normal_fine |->
                             IF render_out.feasible_normals
                             THEN Append(out.out_normal_fine, render_out.gradients)
                             ELSE out.out_normal_fine,
                         batches |-> Append(out.batches, Head(batches))])

RECURSIVE RenderLoop(_, _, _)
\* for rays_o_batch, rays_d_batch in zip(rays_o, rays_d): render, then append
\* each output that is present; out holds the lists built so far
RenderLoop(batches, has_normals, out) ==
    IF batches = <<>> THEN out
    ELSE LET render_out == RenderOut(Head(batches), has_normals)
         IN  RenderLoop(Tail(batches), has_normals,
                        [out_rgb_fine |-> Append(out.out_rgb_fine, render_out.color_fine),
                         out_normal_fine |->
                             IF render_out.feasible_normals
                             THEN Append(out.out_normal_fine, render_out.gradients)
                             ELSE out.out_normal_fine,
                         batches |-> Append(out.batches, Head(batches))])

\* the batches, the output lists and the reassembled colour image
RenderImageBatched(grid, batch_size, has_normals) ==
    LET H == Len(grid)
        W == Len(grid[1])
        out == RenderLoop(TorchSplit(Flatten(grid), batch_size), has_normals,
                          [out_rgb_fine |-> <<>>, out_normal_fine |-> <<>>,
                           batches |-> <<>>])
    IN  [batches |-> out.batches,
         out_rgb_fine |-> out.out_rgb_fine,
         out_normal_fine |-> out.out_normal_fine,
         img_fine |-> Reshape(Concatenate(out.out_rgb_fine), H, W),
         normal_img |-> IF out.out_normal_fine = <<>> THEN <<>>
                        ELSE Reshape(Concatenate(out.out_normal_fine), H, W)]

RenderConfs ==
    {[TrainConf(MaxEndIter, 2, 1, 2, 2) EXCEPT !.batch_size = b] : b \in 1..MaxBatch}

InitRender ==
    /\ conf \in RenderConfs
    /\ conf_file = ExampleConfFile
    /\ ckpt_dir = <<>>
    /\ saved = <<>>
    /\ args = DefaultArgs
    /\ calls = <<>>
    /\ pc = "constructed"
    /\ events = <<>>
    /\ NoRunner
    /\ NoTrain
    /\ ret = <<>>
    /\ all_psnr = <<>> /\ all_normal_mae = <<>>
    /\ images = <<>> /\ video = <<>>
    /\ data_files = <<>>
    /\ \E H \in 1..MaxH, W \in 1..MaxW : rays = RayGrid(H, W)

\* self.validate_image(): the rendering of the pixel grid
CallValidateImage(has_normals) ==
    /\ pc = "constructed"
    /\ ret' = RenderImageBatched(rays, conf.batch_size, has_normals)
    /\ pc' = "validated"
    /\ UNCHANGED <<conf, conf_file, ckpt_dir, cliVars, runnerVars, loopVars, histVars,
                   rays, data_files, all_psnr, all_normal_mae, images, video, events,
                   saved>>

\* self.render_novel_image(idx_0, idx_1, ratio, resolution_level)
CallRenderNovelImage ==
    /\ pc = "constructed"
    /\ ret' = RenderImageBatched(rays, conf.batch_size, FALSE)
    /\ pc' = "rendered"
    /\ UNCHANGED <<conf, conf_file, ckpt_dir, cliVars, runnerVars, loopVars, histVars,
                   rays, data_files, all_psnr, all_normal_mae, images, video, events,
                   saved>>

NextRender ==
    \/ \E has_normals \in BOOLEAN : CallValidateImage(has_normals)
    \/ CallRenderNovelImage

SpecRender == InitRender /\ [][NextRender]_vars

----------------------------------------------------------------------------
(* Properties of the training specification *)

InTrain == pc \in {"loop", "done"}

\* the multiples of f in a+1 .. b, ascending
MultiplesBetween(a, b, f) ==
    SelectSeq([i \in 1..(b - a) |-> a + i], LAMBDA x : x % f = 0)

\* check j improved strictly on every earlier check of this train()
StrictlyImproving(j) == \A i \in 1..(j - 1) : losses_val[j] < losses_val[i]

\* the last strictly improving check (the first check always is one)
LastImprovement ==
    CHOOSE j \in 1..Len(losses_val) :
        /\ StrictlyImproving(j)
        /\ \A k \in (j + 1)..Len(losses_val) : ~StrictlyImproving(k)

\* C1: validation checks happen at every multiple of val_freq; the loop stops
\* at exactly the patience-th consecutive check that fails to improve strictly
\* on the best (and not before), no optimizer step follows that check, and
\* best_val_iter is the iteration of the last strictly improving check.
C1_EarlyStopExact ==
    InTrain =>
        /\ val_iters = MultiplesBetween(start_iter, iter_step, conf.val_freq)
        /\ Len(losses_val) = Len(val_iters)
        /\ losses_val = <<>> => ~early_stop
        /\ losses_val # <<>> =>
             LET m == Len(losses_val)
                 j == LastImprovement
             IN  /\ ~early_stop => m - j < conf.patience
                 /\ early_stop =>
                      /\ m - j = conf.patience
                      /\ iter_step = val_iters[m]
                      /\ steps_taken = val_iters[m] - start_iter
                      /\ best_val_iter = val_iters[j]

\* two improving checks, then patience = 2 checks without improvement, before end_iter
C1_Witness ==
    /\ pc = "done" /\ early_stop /\ conf.patience = 2
    /\ Len(losses_val) = 4 /\ LastImprovement = 2
    /\ iter_step < conf.end_iter

\* C3: a Runner constructed from a checkpoint holds the four networks, the
\* optimizer state and the iteration counter that save_checkpoint wrote, and
\* its train() performs end_iter minus that counter steps unless it stops early.
C3_CheckpointRoundTrip ==
    loaded # NoName =>
        /\ pc = "constructed" =>
             /\ nets = saved[loaded].nets
             /\ optimizer = saved[loaded].optimizer
             /\ iter_step = saved[loaded].iter_step
        /\ InTrain => start_iter = saved[loaded].iter_step
                      /\ nets = NetsAfter(saved[loaded].iter_step + steps_taken)
        /\ pc = "done" /\ ~early_stop =>
             steps_taken = conf.end_iter - saved[loaded].iter_step

C3_Witness ==
    /\ pc = "done" /\ loaded # NoName /\ ~early_stop
    /\ steps_taken > 0 /\ saved[loaded].iter_step > 0

\* C4: the loop draws each permutation's entries in order from its first
\* element, and a permutation is replaced only after every entry was drawn.
C4_PermutationFullyDrawn ==
    InTrain =>
        /\ drawn = SubSeq(image_perm, 1, Len(drawn))
        /\ prev_perm # <<>> => prev_drawn = prev_perm

\* C5: after the loop train() saves the loss curve, then the PSNR curve, then
\* extracts one mesh at resolution 512 in local space named by iter_step, then
\* closes the writer; nothing of this happens before the loop has ended.
C5_ExitActions ==
    LET m == Len(events)
        exit_ops == {"loss_curve", "psnr_curve", "writer_close"}
    IN  /\ pc = "loop" =>
             /\ writer = "open"
             /\ \A i \in 1..m : events[i].op \notin exit_ops
        /\ pc = "done" =>
             /\ writer = "closed"
             /\ m >= 4
             /\ events[m - 3] = PlainEv("loss_curve", iter_step)
             /\ events[m - 2] = PlainEv("psnr_curve", iter_step)
             /\ events[m - 1] = MeshEv(iter_step, 512, FALSE, FALSE)
             /\ events[m] = PlainEv("writer_close", iter_step)
             /\ \A i \in 1..(m - 4) : events[i].op \notin exit_ops

\* the loop was left by early stopping before end_iter
C5_Witness == pc = "done" /\ early_stop /\ iter_step < conf.end_iter

\* C6: the counter grows by one per executed iteration and never passes
\* end_iter, a train() entered at s executes at most end_iter - s iterations,
\* and the loop is left only with the counter at end_iter or early_stop set.
C6_Termination ==
    InTrain =>
        /\ iter_step = start_iter + loop_i
        /\ steps_taken = loop_i
        /\ loop_i <= conf.end_iter - start_iter
        /\ iter_step <= conf.end_iter
        /\ pc = "done" => (iter_step = conf.end_iter \/ early_stop)

\* a resumed train() that ran to end_iter
C6_Witness ==
    /\ pc = "done" /\ ~early_stop /\ start_iter > 0 /\ steps_taken > 0
    /\ iter_step = conf.end_iter

----------------------------------------------------------------------------
(* Properties of resuming and of the command line *)

\* the iteration numbers of the checkpoints in the directory that are eligible
EligibleIters == {k \in {saved[f].iter_step : f \in DOMAIN saved} : k <= conf.end_iter}

\* C2: a Runner constructed with continuation requested restores the
\* checkpoint with the numerically greatest iteration number <= end_iter among
\* the files save_checkpoint has named.
C2_LatestCheckpointSelected ==
    pc = "constructed" /\ args.is_continue =>
        /\ loaded # NoName
        /\ iter_step \in EligibleIters
        /\ \A k \in EligibleIters : k <= iter_step

\* C7: with a non-zero --checkpoint and without --is_continue the Runner
\* restores the selected checkpoint exactly as with --is_continue; with both
\* at their defaults nothing is loaded and the counter starts at 0.
C7_CheckpointSelectorResumes ==
    pc = "constructed" /\ ~args.is_continue =>
        /\ args.checkpoint = 0 => loaded = NoName /\ iter_step = 0
        /\ args.checkpoint # 0 /\ ModelList(ckpt_dir, conf) # {} =>
             /\ loaded = LatestModelName(ModelList(ckpt_dir, conf))
             /\ nets = saved[loaded].nets
             /\ optimizer = saved[loaded].optimizer
             /\ iter_step = saved[loaded].iter_step

Dispatched == pc \in {"dispatched", "train"}

\* the three fixed modes run their operation
FixedModesDispatch ==
    /\ Dispatched /\ args.mode = ModeTrain => calls = <<CallTrain>> /\ pc = "train"
    /\ Dispatched /\ args.mode = ModeEvaluate => calls = <<CallEvaluate>>
    /\ Dispatched /\ args.mode = ModeValidateMesh =>
         calls = <<Call("validate_mesh", 0, 0, 512, args.mcube_threshold, FALSE, FALSE)>>

NotFixedMode == args.mode \notin {ModeTrain, ModeEvaluate, ModeValidateMesh}

\* C8 (as stated): the fixed modes run their operation, a mode of the form
\* interpolate_A_B runs interpolate_view(A, B), a mode starting with
\* 'interpolate' that does not split into three parts ends in an error, and
\* any other mode runs no operation.
C8_DispatchAsStated ==
    LET parts == Split(args.mode, "_")
        form == Len(parts) = 3 /\ parts[1] = Interpolate
                /\ IntOk(parts[2]) /\ IntOk(parts[3])
    IN  /\ FixedModesDispatch
        /\ pc \notin {"start", "init_error", "constructed"} /\ NotFixedMode =>
             IF form
             THEN pc = "dispatched"
                  /\ calls = <<CallInterpolateView(IntOf(parts[2]), IntOf(parts[3]))>>
             ELSE IF StartsWith(args.mode, Interpolate) /\ Len(parts) # 3
             THEN pc = "error" /\ calls = <<>>
             ELSE calls = <<>>

\* C8 (amended): the fixed modes run their operation; a mode that starts with
\* 'interpolate' and splits at '_' into three parts whose second and third
\* parse as integers A and B runs interpolate_view(A, B), whatever follows
\* 'interpolate' in the first part; a mode that starts with 'interpolate' and
\* does not split so ends in an error; any other mode runs no operation.
C8_Dispatch ==
    LET parts == Split(args.mode, "_")
        form == Len(parts) = 3 /\ StartsWith(parts[1], Interpolate)
                /\ IntOk(parts[2]) /\ IntOk(parts[3])
    IN  /\ FixedModesDispatch
        /\ pc \notin {"start", "init_error", "constructed"} /\ NotFixedMode =>
             IF form
             THEN pc = "dispatched"
                  /\ calls = <<CallInterpolateView(IntOf(parts[2]), IntOf(parts[3]))>>
             ELSE IF StartsWith(args.mode, Interpolate)
             THEN pc = "error" /\ calls = <<>>
             ELSE pc = "dispatched" /\ calls = <<>>

\* interpolate_view(1, 2) was run for a mode whose first part is not 'interpolate'
C8_Witness ==
    /\ pc = "dispatched"
    /\ calls = <<CallInterpolateView(1, 2)>>
    /\ Split(args.mode, "_")[1] # Interpolate

----------------------------------------------------------------------------
(* Properties of the configuration substitution *)

\* the positions at which tok occurs in s
Occurrences(s, tok) ==
    {i \in 1..(Len(s) - Len(tok) + 1) : SubSeq(s, i, i + Len(tok) - 1) = tok}

HasPlaceholder(s) == Occurrences(s, Placeholder) # {}

\* r is s with every occurrence of the placeholder replaced by case (the
\* placeholder cannot overlap itself, so the occurrences are disjoint)
ReplacedEverywhere(s, r, case) ==
    LET occ == Occurrences(s, Placeholder)
        grow == Len(case) - Len(Placeholder)
        shift(i) == Cardinality({p \in occ : p < i}) * grow
        inside(i) == \E p \in occ : p <= i /\ i < p + Len(Placeholder)
    IN  /\ Len(r) = Len(s) + Cardinality(occ) * grow
        /\ \A i \in 1..Len(s) : ~inside(i) => r[i + shift(i)] = s[i]
        /\ \A p \in occ :
             SubSeq(r, p + shift(p), p + shift(p) + Len(case) - 1) = case

SharesNoCharacter(a, b) == \A i \in 1..Len(a), j \in 1..Len(b) : a[i] # b[j]

\* C9 (as stated): for every configuration text and case identifier the
\* substituted text and the dataset-directory value contain no placeholder,
\* and every occurrence in the original was replaced by the case identifier.
C9_SubstitutionAsStated ==
    pc = "constructed" =>
        /\ ~HasPlaceholder(conf_text)
        /\ ~HasPlaceholder(data_dir)
        /\ ReplacedEverywhere(conf_file, conf_text, args.case)
        /\ ReplacedEverywhere(ParsedDataDir(conf_file), data_dir, args.case)

\* C9 (amended): every occurrence in the original text is replaced by the case
\* identifier, and the dataset-directory value is the substituted text's value
\* with every occurrence left in it replaced once more; when the case
\* identifier is non-empty and shares no character with the placeholder, the
\* substituted text and the dataset-directory value contain no placeholder and
\* the value is the original value with every occurrence replaced.
C9_Substitution ==
    pc = "constructed" =>
        /\ ReplacedEverywhere(conf_file, conf_text, args.case)
        /\ ReplacedEverywhere(ParsedDataDir(conf_text), data_dir, args.case)
        /\ args.case # <<>> /\ SharesNoCharacter(args.case, Placeholder) =>
             /\ ~HasPlaceholder(conf_text)
             /\ ~HasPlaceholder(data_dir)
             /\ ReplacedEverywhere(ParsedDataDir(conf_file), data_dir, args.case)
             /\ data_dir = ParsedDataDir(conf_text)

\* a file with the placeholder twice in the dataset directory, substituted
C9_Witness ==
    /\ pc = "constructed"
    /\ args.case = <<"b", "e", "a", "r">>
    /\ Cardinality(Occurrences(ParsedDataDir(conf_file), Placeholder)) = 2
    /\ Len(data_dir) < Len(ParsedDataDir(conf_file))

----------------------------------------------------------------------------
(* Properties of the learning-rate schedule *)

\* the rate base_lr * factor for a factor in fixed point
RateOf(factor) == (conf.learning_rate * factor) \div Scale

GroupRate(g) == optimizer.param_groups[g].lr

\* the schedule on lr, the rate every group holds after the call at t
ScheduleAt(lr, t, proper) ==
    LET w == conf.warm_up_end
        e == conf.end_iter
        base == conf.learning_rate
        floor_rate == RateOf(conf.learning_rate_alpha)
        next == UpdateLearningRate(optimizer, t + 1, conf).param_groups[1].lr
    IN  /\ t < w => /\ lr * w <= base * t
                    /\ base * t < (lr + base \div Scale) * w
        /\ t = 0 /\ w > 0 => lr = 0
        /\ t = 50 /\ w = 100 => 2 * lr = base
        /\ proper =>
             /\ t = w => lr = base
             /\ t = e => lr = floor_rate
             /\ w <= t /\ t <= e => floor_rate <= lr /\ lr <= base
             /\ w <= t /\ t < e => next <= lr

\* C10 (as stated): the factor is t / warm_up_end before warm_up_end, 1 at
\* warm_up_end, learning_rate_alpha at end_iter, within [alpha, 1] and
\* non-increasing between them, and every parameter group holds base_lr * factor.
C10_ScheduleAsStated ==
    pc # "constructed" =>
        /\ pc = "lr_updated"
        /\ \A g \in DOMAIN optimizer.param_groups :
             /\ GroupRate(g) = GroupRate(1)
             /\ ScheduleAt(GroupRate(g), iter_step, TRUE)

\* the schedule for configurations with warm_up_end < end_iter, and the one
\* call that raises: warm_up_end = end_iter = iter_step
ScheduleWhenWarmUpEndsEarlier ==
    /\ pc = "lr_updated" =>
         \A g \in DOMAIN optimizer.param_groups :
             /\ GroupRate(g) = GroupRate(1)
             /\ ScheduleAt(GroupRate(g), iter_step, conf.warm_up_end < conf.end_iter)
    /\ pc = "error" =>
         conf.warm_up_end = conf.end_iter /\ iter_step = conf.end_iter

----------------------------------------------------------------------------
(* Properties of the cosine-anneal ratio *)

\* C11: with anneal_end = 0 the ratio is 1; with anneal_end > 0 it is
\* min(1, iter_step / anneal_end), 0.5 at iteration 500 of 1000 and 1 from
\* anneal_end on; it lies in [0, 1] and does not decrease with iter_step.
C11_CosAnnealRatio ==
    pc = "ratio_returned" =>
        LET t == iter_step
            a == conf.anneal_end
        IN  /\ a = 0 => ret = Scale
            /\ a > 0 /\ t >= a => ret = Scale
            /\ a > 0 /\ t < a => ret * a <= t * Scale /\ t * Scale < (ret + 1) * a
            /\ a = 1000 /\ t = 500 => 2 * ret = Scale
            /\ 0 <= ret /\ ret <= Scale
            /\ ret <= CosAnnealRatio(t + 1, conf)

\* the ratio 0.5 returned at iteration 500 with anneal_end = 1000
C11_Witness ==
    /\ pc = "ratio_returned" /\ conf = ExampleAnnealConf
    /\ iter_step = 500 /\ ret = Scale \div 2

----------------------------------------------------------------------------
(* Properties of near_far_from_sphere *)

\* C12: for every ray, a direction of zero length included, near = t_mid - 1
\* and far = t_mid + 1, so far - near == 2 and near < far; a ray from the scene
\* origin has near = -1 and far = 1.
C12_NearFarBounds ==
    pc = "near_far_returned" =>
        /\ FEq(FSub(ret.far, ret.near), Num(2 * Scale))
        /\ FLess(ret.near, ret.far)
        /\ FEq(ret.near, FAdd(RayMid(rays.o, rays.d), -Scale))
        /\ FEq(ret.far, FAdd(RayMid(rays.o, rays.d), Scale))
        /\ rays.o = <<0, 0, 0>> => FEq(ret.near, Num(-Scale)) /\ FEq(ret.far, Num(Scale))

\* for directions of non-zero length the bounds are as stated; for the zero
\* direction both are nan
NearFarOfProperRays ==
    pc = "near_far_returned" =>
        IF rays.d = <<0, 0, 0>>
        THEN ret.near = NaN /\ ret.far = NaN
        ELSE /\ FEq(FSub(ret.far, ret.near), Num(2 * Scale))
             /\ FLess(ret.near, ret.far)
             /\ rays.o = <<0, 0, 0>> => ret.near = Num(-Scale) /\ ret.far = Num(Scale)

----------------------------------------------------------------------------
(* Properties of evaluate() *)

\* the runner holds what construction gave it: a fresh state, or the state of
\* the checkpoint it loaded
AsConstructed ==
    /\ IF loaded = NoName
       THEN iter_step = 0 /\ nets = FreshNets /\ optimizer = FreshOptimizer(conf)
       ELSE /\ iter_step = saved[loaded].iter_step
            /\ nets = saved[loaded].nets
            /\ optimizer = saved[loaded].optimizer
    /\ steps_taken = 0

\* the checkpoints directory holds the files earlier runs saved and no other
NothingSaved ==
    /\ DOMAIN ckpt_dir = DOMAIN saved
    /\ \A f \in DOMAIN saved :
         ckpt_dir[f] = CheckpointOf(saved[f].nets, saved[f].optimizer, saved[f].iter_step)
    /\ \A j \in 1..Len(events) : events[j].op # "save_checkpoint"

\* C13: evaluate() processes every image index exactly once, in the order of
\* one fresh permutation, appends one PSNR and one normal MAE per image, and
\* takes no optimizer step, changes neither the iteration counter nor the
\* learning rate, and writes no checkpoint.
C13_EvaluateOncePerImage ==
    pc \in {"evaluate", "evaluated"} =>
        /\ image_perm \in Perms(conf.n_images)
        /\ drawn = SubSeq(image_perm, 1, loop_i)
        /\ Len(all_psnr) = loop_i /\ Len(all_normal_mae) = loop_i
        /\ pc = "evaluated" =>
             /\ loop_i = conf.n_images
             /\ \A k \in 0..(conf.n_images - 1) :
                  Cardinality({j \in 1..Len(drawn) : drawn[j] = k}) = 1
        /\ AsConstructed
        /\ NothingSaved

\* evaluate() of a runner resumed at iteration 4 has processed three images
C13_Witness ==
    /\ pc = "evaluated" /\ iter_step = 4
    /\ conf.n_images = 3 /\ Len(all_psnr) = 3 /\ drawn # <<0, 1, 2>>

----------------------------------------------------------------------------
(* Properties of interpolate_view() *)

\* C14: interpolate_view renders 60 frames for i = 0..59 in increasing order
\* and appends them reversed: 120 frames, frame 60 + i is frame 59 - i, the
\* first and the last are the frame rendered at ratio 0, no frame is rendered
\* twice, and the iteration counter and the networks are unchanged.
C14_PingPongFrames ==
    /\ pc = "interpolate" => Len(images) = loop_i /\ AsConstructed
    /\ pc = "interpolated" =>
         /\ Len(video) = 2 * NFrames
         /\ \A i \in 0..(NFrames - 1) :
              /\ video[i + 1].render = i + 1
              /\ video[i + 1].idx_0 = calls[1].idx_0
              /\ video[i + 1].idx_1 = calls[1].idx_1
              /\ video[NFrames + i + 1] = video[NFrames - i]
         /\ \A i \in 1..(NFrames - 1) : video[i].ratio < video[i + 1].ratio
         /\ \A i \in 1..(2 * NFrames) : video[i] = video[2 * NFrames + 1 - i]
         /\ video[1].ratio = 0 /\ video[2 * NFrames] = video[1]
         /\ Cardinality({video[i].render : i \in 1..(2 * NFrames)}) = NFrames
         /\ AsConstructed

\* the video of the views between cameras 0 and 1 by a runner resumed at 4
C14_Witness ==
    /\ pc = "interpolated" /\ iter_step = 4
    /\ calls = <<CallInterpolateView(0, 1)>>
    /\ Len(video) = 120 /\ video[60].ratio > 9900

----------------------------------------------------------------------------
(* Properties of the DiligentMV loader *)

\* C15: after construction the loader holds one camera-to-world pose and one
\* intrinsics matrix per loaded image, for every number of image
\* subdirectories found.
C15_OnePosePerImage ==
    pc = "dataset_loaded" =>
        /\ Len(ret.pose_all) = ret.n_images
        /\ Len(ret.intrinsics_all) = ret.n_images
        /\ ret.n_images = data_files.with_image

\* what the loader holds: one intrinsics matrix per image, and the poses of
\* the NumViews views whatever the number of images
LoaderHoldsAllViews ==
    pc = "dataset_loaded" =>
        /\ Len(ret.intrinsics_all) = ret.n_images
        /\ Len(ret.images_list) = ret.n_images
        /\ Len(ret.pose_all) = NumViews
        /\ ret.n_images \in 1..data_files.cameras

----------------------------------------------------------------------------
(* Properties of the cadenced mesh export *)

\* the meshes extracted at counter t
MeshesAt(t) ==
    SelectSeq(events, LAMBDA e : e.op = "validate_mesh" /\ e.iter = t)

\* the mesh the cadence calls for at counter t
MeshDue(t) ==
    IF t = conf.end_iter
    THEN <<[op |-> "validate_mesh", iter |-> t, resolution |-> 512,
            world_space |-> FALSE, save_numpy_sdf |-> FALSE]>>
    ELSE IF t % conf.val_mesh_freq = 0
    THEN <<[op |-> "validate_mesh", iter |-> t, resolution |-> 64,
            world_space |-> FALSE, save_numpy_sdf |-> (t > 24000)]>>
    ELSE <<>>

\* C16 (as stated): every step the loop executes, the early-stopping step
\* included, extracts a 512 local-space mesh when its counter equals end_iter,
\* otherwise a 64 mesh when the counter is a multiple of val_mesh_freq (with
\* the signed-distance volume dumped iff the counter exceeds 24000), and no
\* mesh otherwise.
C16_CadencedMeshAsStated ==
    pc = "loop" =>
        \A t \in (start_iter + 1)..iter_step : MeshesAt(t) = MeshDue(t)

\* C16 (amended): as stated for every step that does not trigger early
\* stopping; the step that triggers it leaves the loop before the export and
\* extracts no mesh.
C16_CadencedMesh ==
    pc = "loop" =>
        \A t \in (start_iter + 1)..iter_step :
            MeshesAt(t) = IF early_stop /\ t = iter_step THEN <<>> ELSE MeshDue(t)

\* a run that dumped the volume after 24000 and then stopped early at a
\* counter that is a multiple of val_mesh_freq
C16_Witness ==
    /\ pc = "loop" /\ early_stop
    /\ iter_step % conf.val_mesh_freq = 0 /\ iter_step > 24000
    /\ \E j \in 1..Len(events) : events[j].save_numpy_sdf
    /\ \E j \in 1..Len(events) :
         events[j].op = "validate_mesh" /\ events[j].iter <= 24000

----------------------------------------------------------------------------
(* Properties of the checkpoint cadence *)

\* the positions in events of the calls of op at counter t
EventsAt(op, t) == {j \in 1..Len(events) : events[j].op = op /\ events[j].iter = t}

\* ckpt_ followed by the six decimal digits of k (k < 10^6) and .pth
SixDigitName(k) ==
    <<"c", "k", "p", "t", "_">>
    \o [i \in 1..6 |-> Digit[((k \div (10 ^ (6 - i))) % 10) + 1]]
    \o <<".", "p", "t", "h">>

\* C17: a step writes a checkpoint iff its post-increment counter is a multiple
\* of save_freq; the file written at counter k is ckpt_<k padded to 6 digits>.pth
\* and holds iter_step = k with the networks and optimizer state reached after
\* that iteration's optimizer step; it is written before the validation check
\* of the step, so the step that triggers early stopping writes it too.
C17_CheckpointCadence ==
    InTrain =>
        \A t \in (start_iter + 1)..iter_step :
            LET due == t % conf.save_freq = 0
                name == SixDigitName(t)
            IN  /\ Cardinality(EventsAt("save_checkpoint", t)) = IF due THEN 1 ELSE 0
                /\ due =>
                     /\ name \in DOMAIN ckpt_dir
                     /\ ckpt_dir[name].iter_step = t
                     /\ ckpt_dir[name].optimizer.step = t
                     /\ ckpt_dir[name].optimizer.param_groups =
                          UpdateLearningRate(FreshOptimizer(conf), t - 1, conf).param_groups
                     /\ ckpt_dir[name].sdf_network_fine = NetsAfter(t).sdf_network
                     /\ ckpt_dir[name].color_network_fine = NetsAfter(t).color_network
                     /\ ckpt_dir[name].variance_network_fine = NetsAfter(t).deviation_network
                     /\ ckpt_dir[name].nerf = NetsAfter(t).nerf_outside
                     /\ \A j \in EventsAt("save_checkpoint", t),
                           k \in EventsAt("validate_image", t) : j < k

\* a resumed run stopped early at a multiple of save_freq, its checkpoint written
C17_Witness ==
    /\ pc = "loop" /\ early_stop /\ start_iter > 0
    /\ iter_step % conf.save_freq = 0 /\ iter_step > start_iter
    /\ SixDigitName(iter_step) \in DOMAIN ckpt_dir
    /\ EventsAt("validate_image", iter_step) # {}

----------------------------------------------------------------------------
(* Properties of batched rendering *)

\* C18: the N rays of the image are split into ceil(N / batch_size)
\* consecutive batches of at most batch_size rays, rendered in order, each
\* result appended, and the reassembled image holds the result of ray j at
\* position j, also when N is not a multiple of batch_size.
C18_BatchedRendering ==
    pc \in {"validated", "rendered"} =>
        LET H == Len(rays)
            W == Len(rays[1])
            N == H * W
            b == conf.batch_size
            n_batches == (N + b - 1) \div b
        IN  /\ Len(ret.batches) = n_batches
            /\ Len(ret.out_rgb_fine) = n_batches
            /\ \A k \in 1..n_batches :
                 /\ Len(ret.batches[k]) = IF k * b <= N THEN b ELSE N - (k - 1) * b
                 /\ Len(ret.out_rgb_fine[k]) = Len(ret.batches[k])
                 /\ \A i \in 1..Len(ret.batches[k]) :
                      /\ ret.batches[k][i] = (k - 1) * b + i
                      /\ ret.out_rgb_fine[k][i] = 100 + (k - 1) * b + i
            /\ \A h \in 1..H, w \in 1..W : ret.img_fine[h][w] = 100 + rays[h][w]
            /\ ret.normal_img # <<>> =>
                 \A h \in 1..H, w \in 1..W : ret.normal_img[h][w] = -rays[h][w]

\* an image of 3 x 4 rays rendered in batches of 5, 5 and 2
C18_Witness ==
    /\ pc = "rendered" /\ conf.batch_size = 5
    /\ Len(rays) = 3 /\ Len(rays[1]) = 4
    /\ Len(ret.out_rgb_fine) = 3 /\ Len(ret.out_rgb_fine[3]) = 2
    /\ ret.img_fine[3][4] = 112

----------------------------------------------------------------------------
(* Properties of the early-stop bookkeeping *)

\* the number of validation checks this train() has performed
ChecksPerformed == Len(SelectSeq(events, LAMBDA e : e.op = "validate_image"))

\* the smallest loss recorded
MinLoss ==
    CHOOSE x \in {losses_val[i] : i \in DOMAIN losses_val} :
        \A i \in DOMAIN losses_val : x <= losses_val[i]

\* the earliest check that recorded the smallest loss
EarliestBest == CHOOSE j \in 1..Len(losses_val) :
                    /\ losses_val[j] = MinLoss
                    /\ \A i \in 1..(j - 1) : losses_val[i] # MinLoss

\* C19: after every validation check of train(), losses_val and psnrs_val
\* have the same length, the number of checks performed in this call;
\* best_val_metric is the minimum of losses_val; best_val_iter is the
\* iteration of the earliest check attaining it; the patience counter is the
\* number of checks since that check, below patience while the loop goes on.
C19_EarlyStopBookkeeping ==
    InTrain =>
        /\ Len(losses_val) = ChecksPerformed
        /\ Len(psnrs_val) = ChecksPerformed
        /\ Len(val_iters) = ChecksPerformed
        /\ ChecksPerformed > 0 =>
             /\ best_val_metric = MinLoss
             /\ best_val_iter = val_iters[EarliestBest]
             /\ patience_counter = ChecksPerformed - EarliestBest
             /\ (pc = "loop" /\ ~early_stop) => patience_counter < conf.patience

\* the minimum was reached at the second check and tied at the third; the
\* loop is still running
C19_Witness ==
    /\ pc = "loop" /\ ~early_stop /\ conf.patience = 2
    /\ losses_val = <<1, 0, 0>>
    /\ best_val_metric = 0 /\ best_val_iter = val_iters[2]
    /\ patience_counter = 1

----------------------------------------------------------------------------
(* Properties of resuming with nothing to resume from *)

\* the checkpoint files written at an iteration no later than end_iter
EligibleFiles == {name \in DOMAIN saved : saved[name].iter_step <= conf.end_iter}

\* C20: a Runner constructed with continuation requested, when the
\* checkpoints directory holds no checkpoint of an iteration <= end_iter
\* (it is empty, or holds later checkpoints only), fails in construction and
\* loads nothing; it never starts from iteration 0 instead and never loads a
\* checkpoint of an iteration beyond end_iter.
C20_NothingToResume ==
    pc # "start" /\ args.is_continue =>
        /\ EligibleFiles = {} =>
             /\ pc = "init_error"
             /\ loaded = NoName
             /\ nets = FreshNets /\ iter_step = 0
        /\ pc # "init_error" => loaded # NoName
        /\ loaded # NoName =>
             /\ saved[loaded].iter_step <= conf.end_iter
             /\ iter_step = saved[loaded].iter_step

\* only checkpoints beyond end_iter = 100 in the directory, and the
\* construction failed
C20_Witness ==
    /\ pc = "init_error" /\ args.is_continue /\ conf.end_iter = 100
    /\ DOMAIN saved # {}
    /\ \A name \in DOMAIN saved : saved[name].iter_step > 100
    /\ loaded = NoName

----------------------------------------------------------------------------
(* Properties of resumed training *)

\* base_lr * factor(t)
RateAt(t) == (conf.learning_rate * LearningFactor(t, conf)) \div Scale

\* the rate of every parameter group of the optimizer
RateIs(opt, rate) == \A g \in DOMAIN opt.param_groups : opt.param_groups[g].lr = rate

\* C21: the optimizer step of train() that advances the iteration counter
\* from t to t+1 uses the rate base_lr * factor(t), in an uninterrupted run
\* and in the first step after resuming from a checkpoint saved at counter t
\* (whose optimizer state carries the rate of an earlier iteration); so a
\* resumed run applies the same learning-rate sequence as an uninterrupted one.
C21_LearningRateAcrossResume ==
    [][(pc = "loop" /\ iter_step' = iter_step + 1) =>
           RateIs(optimizer, RateAt(iter_step))]_vars

\* the first step after resuming from a checkpoint whose optimizer state
\* carries another rate than the one of its counter
C21_Witness ==
    /\ pc = "loop" /\ loaded # NoName /\ steps_taken = 1
    /\ start_iter = saved[loaded].iter_step /\ start_iter > 0
    /\ iter_step = start_iter + 1
    /\ ~RateIs(saved[loaded].optimizer, RateAt(start_iter))
    /\ RateIs(saved[loaded].optimizer, RateAt(start_iter - 1))

\* a resumed train() before its first validation check
ResumedEntry == InTrain /\ loaded # NoName /\ losses_val = <<>>

\* C22 (as stated): given the same losses, a run interrupted after a
\* checkpoint and resumed from it stops at the same iteration, with the same
\* best iteration, as the uninterrupted run: the best-seen loss, its iteration
\* and the patience counter in effect at the checkpoint carry over the
\* save/load boundary.
C22_EarlyStopCarriesOver ==
    ResumedEntry =>
        LET at_checkpoint == saved[loaded].bookkeeping
        IN  /\ best_val_iter = at_checkpoint.best_val_iter
            /\ patience_counter = at_checkpoint.patience_counter
            /\ at_checkpoint.best_val_iter > 0 => best_val_metric # NoneVal
            /\ at_checkpoint.early_stop => pc = "done" /\ steps_taken = 0

RECURSIVE ChecksFrom(_, _, _)
\* the bookkeeping after the checks with these losses at these iterations,
\* starting from bookkeeping b; nothing changes once stopped
ChecksFrom(b, losses, iters) ==
    IF losses = <<>> \/ b.early_stop THEN b
    ELSE LET better == b.best_val_metric = -1 \/ Head(losses) < b.best_val_metric
             count == IF better THEN 0 ELSE b.patience_counter + 1
         IN  ChecksFrom([best_val_metric |-> IF better THEN Head(losses)
                                             ELSE b.best_val_metric,
                         best_val_iter |-> IF better THEN Head(iters) ELSE b.best_val_iter,
                         patience_counter |-> count,
                         early_stop |-> count >= conf.patience,
                         checks |-> b.checks + 1],
                        Tail(losses), Tail(iters))

\* the bookkeeping of a train() that starts afresh: no best loss (-1), no
\* best iteration, the counter not yet bound (-1)
Afresh ==
    [best_val_metric |-> -1, best_val_iter |-> 0, patience_counter |-> -1,
     early_stop |-> FALSE, checks |-> 0]

\* C22 (amended): the best-seen loss, its iteration and the patience counter
\* do not carry over the save/load boundary: a run resumed from a checkpoint
\* at counter t starts them afresh and stops at the same iteration, with the
\* same best iteration, as the validation checks after t alone decide.
C22_EarlyStopAfterResume ==
    InTrain /\ loaded # NoName =>
        LET b == ChecksFrom(Afresh, losses_val, val_iters)
        IN  /\ val_iters =
                 MultiplesBetween(saved[loaded].iter_step, iter_step, conf.val_freq)
            /\ Len(losses_val) = Len(val_iters)
            /\ b.checks = Len(losses_val)
            /\ best_val_metric = b.best_val_metric
            /\ best_val_iter = b.best_val_iter
            /\ patience_counter = b.patience_counter
            /\ early_stop = b.early_stop
            /\ early_stop => iter_step = val_iters[b.checks]
            /\ losses_val # <<>> => best_val_iter > saved[loaded].iter_step

\* a resumed run that stopped early on its own checks alone, although the
\* run that wrote the checkpoint had a best iteration before it
C22_Witness ==
    /\ pc = "done" /\ loaded # NoName /\ early_stop
    /\ saved[loaded].bookkeeping.best_val_iter > 0
    /\ saved[loaded].bookkeeping.best_val_iter < saved[loaded].iter_step
    /\ best_val_iter > saved[loaded].iter_step
    /\ iter_step < conf.end_iter

====
